---- MODULE Spec2Model ----
(***************************************************************************)
(* A model of pyscf/dft/gen_grid.py: the Grids object (its configuration,  *)
(* reset, build and prune_by_density_) and the functions it is built from  *)
(* (_padding_size, gen_atomic_grids, get_partition, arg_group_grids).      *)
(*                                                                         *)
(* Conventions.                                                            *)
(*  - A numpy array is a sequence; array index k is position k+1.          *)
(*  - Python's None is the empty tuple None; a stored array a is the       *)
(*    one-element tuple Arr(a), so that "is None" is a comparison of       *)
(*    tuples and an empty array differs from None.                         *)
(*  - A float is an exact rational <<n, d>> with d > 0 in lowest terms;    *)
(*    <<0,0>> is NaN and <<1,0>>, <<-1,0>> are +inf, -inf, with numpy's    *)
(*    rules for them (x/0 warns and gives inf or nan, never raises).       *)
(*    Rounding error of floating point is not modelled.                    *)
(*  - Lengths are integers in units of 0.6 Bohr, so that GROUP_BOX_SIZE    *)
(*    (1.2) is 2 and GROUP_BOUNDARY_PENALTY (4.2) is 7; quadrature weights *)
(*    are in units of pi times the cubed length unit, and densities in the *)
(*    reciprocal unit.                                                     *)
(***************************************************************************)
EXTENDS Integers, Sequences, FiniteSets, TLC

----------------------------------------------------------------------------
(* Python and numpy values *)

None == <<>>
Arr(a) == <<a>>
Val(x) == x[1]
size(w) == IF w = None THEN 0 ELSE Len(Val(w))

IAbs(x) == IF x < 0 THEN -x ELSE x
Sgn(x) == IF x < 0 THEN -1 ELSE IF x > 0 THEN 1 ELSE 0
Min2(a, b) == IF a < b THEN a ELSE b
Max2(a, b) == IF a < b THEN b ELSE a

RECURSIVE GCD(_, _)
GCD(a, b) == IF b = 0 THEN a ELSE GCD(b, a % b)

NaN == <<0, 0>>
PInf == <<1, 0>>
IsNaN(x) == x = NaN
IsFin(x) == x[2] # 0
Rat(n, d) ==
    IF d = 1 THEN <<n, 1>>
    ELSE IF d = 0 THEN <<Sgn(n), 0>>
    ELSE LET g == GCD(IAbs(n), IAbs(d))
         IN  IF d > 0 THEN <<n \div g, d \div g>> ELSE <<(-n) \div g, (-d) \div g>>
I2R(n) == <<n, 1>>
Zero == I2R(0)
One == I2R(1)
Half == <<1, 2>>

RNeg(a) == <<-a[1], a[2]>>
RAbs(a) == <<IAbs(a[1]), a[2]>>
RAdd(a, b) ==
    IF a[2] # 0 /\ b[2] # 0
    THEN (IF a[2] = b[2] THEN Rat(a[1] + b[1], a[2])
          ELSE LET g == GCD(a[2], b[2])
               IN  Rat(a[1] * (b[2] \div g) + b[1] * (a[2] \div g), (a[2] \div g) * b[2]))
    ELSE IF IsNaN(a) \/ IsNaN(b) THEN NaN
    ELSE IF ~IsFin(a) /\ ~IsFin(b) THEN (IF a = b THEN a ELSE NaN)
    ELSE IF ~IsFin(a) THEN a
    ELSE b
RSub(a, b) == RAdd(a, RNeg(b))
RMul(a, b) ==
    IF a[2] # 0 /\ b[2] # 0
    THEN LET g1 == GCD(IAbs(a[1]), b[2])
             g2 == GCD(IAbs(b[1]), a[2])
         IN  Rat((a[1] \div g1) * (b[1] \div g2), (a[2] \div g2) * (b[2] \div g1))
    ELSE IF IsNaN(a) \/ IsNaN(b) THEN NaN
    ELSE IF a[1] = 0 \/ b[1] = 0 THEN NaN
    ELSE <<Sgn(a[1]) * Sgn(b[1]), 0>>
\* 1/a as numpy computes it: 1/0 is inf (with a warning), 1/inf is 0
RInv(a) ==
    IF IsNaN(a) THEN NaN
    ELSE IF ~IsFin(a) THEN Zero
    ELSE IF a[1] = 0 THEN PInf
    ELSE Rat(a[2], a[1])
RDiv(a, b) == RMul(a, RInv(b))
\* comparisons are False whenever an operand is NaN
RLt(a, b) ==
    IF a[2] # 0 /\ b[2] # 0
    THEN LET g == GCD(a[2], b[2])
         IN  a[1] * (b[2] \div g) < b[1] * (a[2] \div g)
    ELSE IF IsNaN(a) \/ IsNaN(b) THEN FALSE
    ELSE IF ~IsFin(a) /\ ~IsFin(b) THEN a[1] < b[1]
    ELSE IF ~IsFin(a) THEN a[1] < 0
    ELSE b[1] > 0
RLe(a, b) == RLt(a, b) \/ (~IsNaN(a) /\ a = b)
\* numpy.floor of a finite value
RFloor(a) == a[1] \div a[2]
\* numpy.sqrt on the perfect squares the model's geometries produce
ISqrt(n) == CHOOSE r \in 0..n : r * r = n

\* a numpy array holds its elements: the sequence of the values of f
Array(f) == f \o <<>>
\* sums and concatenations run over positions, first to last
RECURSIVE SeqSumTo(_, _)
SeqSumTo(s, n) == IF n = 0 THEN Zero ELSE RAdd(SeqSumTo(s, n - 1), s[n])
SeqSum(s) == SeqSumTo(s, Len(s))
RECURSIVE FlattenTo(_, _)
FlattenTo(ss, n) == IF n = 0 THEN <<>> ELSE FlattenTo(ss, n - 1) \o ss[n]
Flatten(ss) == FlattenTo(ss, Len(ss))
Repeat(x, n) == Array([k \in 1..n |-> x])
\* a[idx] for an index array idx (positions) or a boolean mask
Take(a, idx) == Array([k \in 1..Len(idx) |-> a[idx[k]]])
Mask(a, m) == SelectSeq(Array([k \in 1..Len(a) |-> <<a[k], m[k]>>]), LAMBDA p : p[2])
Compress(a, m) == LET kept == Mask(a, m) IN Array([k \in 1..Len(kept) |-> kept[k][1]])

----------------------------------------------------------------------------
(* Alignment padding *)

ALIGNMENT_UNIT == 8

\* a padding size that rounds down instead of up
PaddingSizeFloor(ngrids, alignment) ==
    IF alignment <= 1 THEN 0
    ELSE ngrids - (ngrids \div alignment) * alignment

_padding_size(ngrids, alignment) ==
    IF alignment <= 1 THEN 0
    ELSE ((ngrids + alignment - 1) \div alignment) * alignment - ngrids

\* the coordinate [1e-4]*3 (in Bohr) of an appended entry
PadCoord == <<Rat(1, 6000), Rat(1, 6000), Rat(1, 6000)>>

----------------------------------------------------------------------------
(* External collaborators: the molecule, the Lebedev tables of               *)
(* pyscf.dft.LebedevGrid and the radial generators and radii of             *)
(* pyscf.dft.radi.  A molecule is a record [symb, coords, nelectron].       *)

natm(mol) == Len(mol.symb)
atom_symbol(mol, ia) == mol.symb[ia]
charge(symb) ==
    CASE symb = "H" -> 1
      [] symb = "He" -> 2
      [] symb = "O" -> 8
      [] symb = "Sb" -> 51
      [] OTHER -> 0

\* LEBEDEV_ORDER as the sequence of its (order, number of points) items
LebedevItems ==
    << <<0, 1>>, <<3, 6>>, <<5, 14>>, <<7, 26>>, <<9, 38>>, <<11, 50>>,
       <<13, 74>>, <<15, 86>>, <<17, 110>>, <<19, 146>>, <<21, 170>>,
       <<23, 194>>, <<25, 230>>, <<27, 266>>, <<29, 302>>, <<31, 350>>,
       <<35, 434>>, <<41, 590>>, <<47, 770>>, <<53, 974>>, <<59, 1202>>,
       <<65, 1454>>, <<71, 1730>>, <<77, 2030>>, <<83, 2354>>, <<89, 2702>>,
       <<95, 3074>>, <<101, 3470>>, <<107, 3890>>, <<113, 4334>>,
       <<119, 4802>>, <<125, 5294>>, <<131, 5810>> >>
LEBEDEV_NGRID == Array([k \in 1..Len(LebedevItems) |-> LebedevItems[k][2]])
InLebedevNgrid(n) == \E k \in 1..Len(LEBEDEV_NGRID) : LEBEDEV_NGRID[k] = n
InLebedevOrder(n) == \E k \in 1..Len(LebedevItems) : LebedevItems[k][1] = n
LEBEDEV_ORDER(n) ==
    LebedevItems[CHOOSE k \in 1..Len(LebedevItems) : LebedevItems[k][1] = n][2]

\* MakeAngularGrid(n): row j is (direction, weight); the 1-point and the
\* 6-point rule are given, larger rules stay symbolic
AngularDir(n, j) ==
    IF n = 1 THEN <<0, 0, 1>>
    ELSE << <<1, 0, 0>>, <<-1, 0, 0>>, <<0, 1, 0>>, <<0, -1, 0>>,
            <<0, 0, 1>>, <<0, 0, -1>> >>[j]
AngularWeight(n, j) == Rat(1, n)

\* radial generators radi_method(n_rad, chg, ia) -> (rad, dr); stand-ins with
\* integral abscissas for the numerical schemes of pyscf.dft.radi
RadStep(radi_method) == IF radi_method = "treutler" THEN 1 ELSE 2
radi_rad(radi_method, n_rad) == Array([k \in 1..n_rad |-> I2R(RadStep(radi_method) * k)])
radi_dr(radi_method, n_rad) == Array([k \in 1..n_rad |-> I2R(RadStep(radi_method))])

\* radi.BRAGG_RADII and radi.SG1RADII for the elements used, in length units
BRAGG_RADII(nuc) ==
    CASE nuc = 1 -> Rat(11, 10)
      [] nuc = 2 -> Rat(44, 10)
      [] nuc = 8 -> Rat(19, 10)
      [] nuc = 51 -> Rat(46, 10)
      [] OTHER -> Zero
SG1RADII(nuc) ==
    CASE nuc = 1 -> Rat(5, 3)
      [] nuc = 2 -> Rat(1, 1)
      [] nuc = 8 -> Rat(3, 4)
      [] nuc = 51 -> Rat(17, 5)
      [] OTHER -> Zero

----------------------------------------------------------------------------
(* Pruning policies: prune(nuc, rads, n_ang) -> one angular count per shell. *)
(* A configuration attribute holds the name of the function assigned to it, *)
(* or "None".                                                               *)

PruneAlphas ==
    << <<Rat(1, 4), Rat(1, 2), One, Rat(9, 2)>>,
       <<Rat(1667, 10000), Rat(1, 2), Rat(9, 10), Rat(7, 2)>>,
       <<Rat(1, 10), Rat(2, 5), Rat(4, 5), Rat(5, 2)>> >>
\* ((rads/r_atom).reshape(-1,1) > alphas[row]).sum(axis=1) for one shell;
\* r_atom = radii[nuc] + 1e-200
PrunePlace(nuc, rad, r_atom) ==
    LET row == IF nuc <= 2 THEN 1 ELSE IF nuc <= 10 THEN 2 ELSE 3
    IN  Cardinality({c \in 1..4 : RLt(PruneAlphas[row][c], RDiv(rad, r_atom))})

sg1_prune(nuc, rads, n_ang) ==
    LET leb_ngrid == <<6, 38, 86, 194, 86>>
    IN  Array([k \in 1..Len(rads) |-> leb_ngrid[PrunePlace(nuc, rads[k], SG1RADII(nuc)) + 1]])

nwchem_prune(nuc, rads, n_ang) ==
    LET leb_ngrid == SubSeq(LEBEDEV_NGRID, 5, Len(LEBEDEV_NGRID))
        idx == (CHOOSE k \in 1..Len(leb_ngrid) : leb_ngrid[k] = n_ang) - 1
        leb_l == IF n_ang = 50 THEN <<1, 2, 2, 2, 1>>
                 ELSE <<1, 3, idx - 1, idx, idx - 1>>
    IN  IF n_ang < 50 THEN Repeat(n_ang, Len(rads))
        ELSE Array([k \in 1..Len(rads) |->
                 leb_ngrid[leb_l[PrunePlace(nuc, rads[k], BRAGG_RADII(nuc)) + 1] + 1]])

treutler_prune(nuc, rads, n_ang) ==
    LET nr == Len(rads)
    IN  Array([k \in 1..nr |-> IF k <= nr \div 3 THEN 14
                         ELSE IF k <= nr \div 2 THEN 50
                         ELSE n_ang])

\* if callable(prune): angs = prune(chg, rad, n_ang) else [n_ang] * n_rad
PruneAngs(prune, chg, rad, n_ang, n_rad) ==
    CASE prune = "nwchem_prune" -> nwchem_prune(chg, rad, n_ang)
      [] prune = "sg1_prune" -> sg1_prune(chg, rad, n_ang)
      [] prune = "treutler_prune" -> treutler_prune(chg, rad, n_ang)
      [] OTHER -> Repeat(n_ang, n_rad)

----------------------------------------------------------------------------
(* gen_atomic_grids *)

RAD_GRIDS ==
    << <<10, 15, 20, 30, 35, 40, 50>>,
       <<30, 40, 50, 60, 65, 70, 75>>,
       <<40, 60, 65, 75, 80, 85, 90>>,
       <<50, 75, 80, 90, 95, 100, 105>>,
       <<60, 90, 95, 105, 110, 115, 120>>,
       <<70, 105, 110, 120, 125, 130, 135>>,
       <<80, 120, 125, 135, 140, 145, 150>>,
       <<90, 135, 140, 150, 155, 160, 165>>,
       <<100, 150, 155, 165, 170, 175, 180>>,
       <<200, 200, 200, 200, 200, 200, 200>> >>
ANG_ORDER ==
    << <<11, 15, 17, 17, 17, 17, 17>>,
       <<17, 23, 23, 23, 23, 23, 23>>,
       <<23, 29, 29, 29, 29, 29, 29>>,
       <<29, 29, 35, 35, 35, 35, 35>>,
       <<35, 41, 41, 41, 41, 41, 41>>,
       <<41, 47, 47, 47, 47, 47, 47>>,
       <<47, 53, 53, 53, 53, 53, 53>>,
       <<53, 59, 59, 59, 59, 59, 59>>,
       <<59, 59, 59, 59, 59, 59, 59>>,
       <<65, 65, 65, 65, 65, 65, 65>> >>
Period(nuc) ==
    LET tab == <<2, 10, 18, 36, 54, 86, 118>>
    IN  Cardinality({k \in 1..Len(tab) : nuc > tab[k]})
_default_rad(nuc, level) == RAD_GRIDS[level + 1][Period(nuc) + 1]
_default_ang(nuc, level) == LEBEDEV_ORDER(ANG_ORDER[level + 1][Period(nuc) + 1])

\* atom_grid is a set of items <<symbol, n_rad, n_ang>>, one per key; the
\* list/tuple form (n_rad, n_ang) is the single item <<AnySymb, n_rad, n_ang>>
AnySymb == "*"
IsTupleGrid(atom_grid) == \E e \in atom_grid : e[1] = AnySymb
\* lines 193-195
AtomGridDict(mol, atom_grid) ==
    IF IsTupleGrid(atom_grid)
    THEN LET t == CHOOSE e \in atom_grid : e[1] = AnySymb
         IN  {<<atom_symbol(mol, ia), t[2], t[3]>> : ia \in 1..natm(mol)}
    ELSE atom_grid
InAtomGrid(symb, d) == \E e \in d : e[1] = symb
AtomGridItem(symb, d) == CHOOSE e \in d : e[1] = symb

\* an angular-count resolution that snaps every unsupported count to 1 point
ResolveAngSnapAll(n_ang) ==
    IF InLebedevNgrid(n_ang) THEN [raised |-> "none", warn |-> FALSE, n_ang |-> n_ang]
    ELSE [raised |-> "none", warn |-> TRUE, n_ang |-> 1]

\* lines 204-212: the angular count used for an explicit n_ang
ResolveAng(n_ang) ==
    IF InLebedevNgrid(n_ang)
    THEN [raised |-> "none", warn |-> FALSE, n_ang |-> n_ang]
    ELSE IF InLebedevOrder(n_ang)
         THEN [raised |-> "none", warn |-> TRUE, n_ang |-> LEBEDEV_ORDER(n_ang)]
         ELSE [raised |-> "ValueError", warn |-> FALSE, n_ang |-> n_ang]

\* set(angs), sorted ascending
RECURSIVE SortedSet(_)
SortedSet(S) ==
    IF S = {} THEN <<>>
    ELSE LET m == CHOOSE x \in S : \A y \in S : x <= y
         IN  <<m>> \o SortedSet(S \ {m})
\* numpy.where(angs == n)[0]
Where(angs, n) == SelectSeq(Array([k \in 1..Len(angs) |-> k]), LAMBDA k : angs[k] = n)
\* lib.prange(0, len, step): the chunks (i0, i1]
prange(len, step) ==
    Array([c \in 1..((len + step - 1) \div step) |->
        <<(c - 1) * step, Min2(c * step, len)>>])
\* einsum('i,jk->jik', rad[idx[i0:i1]], grid).reshape(-1,3): a point is kept as
\* its factors <<shell i, angular count n, angular index j>>, j the slow index
\* a chunk laid out shell by shell ('i,jk->ijk'), j the fast index
ChunkPointsShellMajor(idx, i0, i1, n) ==
    Array([q \in 1..(n * (i1 - i0)) |->
        <<idx[i0 + ((q - 1) \div n) + 1], n, ((q - 1) % n) + 1>>])
ChunkPoints(idx, i0, i1, n) ==
    Array([q \in 1..(n * (i1 - i0)) |->
        <<idx[i0 + ((q - 1) % (i1 - i0)) + 1], n, ((q - 1) \div (i1 - i0)) + 1>>])
\* einsum('i,j->ji', rad_weight[idx[i0:i1]], grid[:,3]).ravel(): the factors
\* <<shell i, angular count n, angular index j>> of each weight, j the slow
\* index
ChunkVols(idx, i0, i1, n) ==
    Array([q \in 1..(n * (i1 - i0)) |->
        <<idx[i0 + ((q - 1) % (i1 - i0)) + 1], n, ((q - 1) \div (i1 - i0)) + 1>>])
\* lines 227-240
AtomPoints(angs) ==
    LET ns == SortedSet({angs[k] : k \in 1..Len(angs)})
        group(n) ==
            LET idx == Where(angs, n)
                ch == prange(Len(idx), 12)
            IN  Flatten(Array([c \in 1..Len(ch) |-> ChunkPoints(idx, ch[c][1], ch[c][2], n)]))
    IN  Flatten(Array([g \in 1..Len(ns) |-> group(ns[g])]))
\* lines 227-240, the vol list
AtomVols(angs) ==
    LET ns == SortedSet({angs[k] : k \in 1..Len(angs)})
        group(n) ==
            LET idx == Where(angs, n)
                ch == prange(Len(idx), 12)
            IN  Flatten(Array([c \in 1..Len(ch) |-> ChunkVols(idx, ch[c][1], ch[c][2], n)]))
    IN  Flatten(Array([g \in 1..Len(ns) |-> group(ns[g])]))

\* lines 216-226: the shells (rad, rad_weight / pi) of an element of charge
\* chg and the angular count of each
ShellsOf(symb, n_rad, n_ang, rad, dr, prune) ==
    [symb |-> symb, n_rad |-> n_rad, n_ang |-> n_ang, rad |-> rad,
     rad_weight |-> Array([k \in 1..n_rad |-> RMul(I2R(4), RMul(RMul(rad[k], rad[k]), dr[k]))]),
     angs |-> PruneAngs(prune, charge(symb), rad, n_ang, n_rad)]
Shells(symb, n_rad, n_ang, radi_method, prune) ==
    ShellsOf(symb, n_rad, n_ang, radi_rad(radi_method, n_rad), radi_dr(radi_method, n_rad), prune)

\* lines 201-226 for one element: [raised, warn, grid]
AtomGridOver(symb, ia, item, res, radi_method, prune) ==
    IF res.raised # "none"
    THEN [raised |-> res.raised, warn |-> <<>>, grid |-> <<>>]
    ELSE [raised |-> "none",
          warn |-> IF res.warn THEN << <<item[3], ia, symb, res.n_ang>> >> ELSE <<>>,
          grid |-> Shells(symb, item[2], res.n_ang, radi_method, prune)]
AtomGrid(symb, ia, atom_grid, radi_method, level, prune) ==
    IF InAtomGrid(symb, atom_grid)
    THEN AtomGridOver(symb, ia, AtomGridItem(symb, atom_grid),
                      ResolveAng(AtomGridItem(symb, atom_grid)[3]), radi_method, prune)
    ELSE [raised |-> "none", warn |-> <<>>,
          grid |-> Shells(symb, _default_rad(charge(symb), level),
                          _default_ang(charge(symb), level), radi_method, prune)]

\* the loop of lines 197-240 from atom ia on; tab is the sequence of the
\* grids made so far, in the order their elements first appear
RECURSIVE GenAtomicGridsFrom(_, _, _, _, _, _, _, _)
GenAtomicGridsNext(ia, tab, warned, mol, atom_grid, radi_method, level, prune, g) ==
    IF g.raised # "none"
    THEN [raised |-> g.raised, warned |-> warned, tab |-> None]
    ELSE GenAtomicGridsFrom(ia + 1, Append(tab, g.grid), warned \o g.warn,
                            mol, atom_grid, radi_method, level, prune)
GenAtomicGridsFrom(ia, tab, warned, mol, atom_grid, radi_method, level, prune) ==
    IF ia > natm(mol) THEN [raised |-> "none", warned |-> warned, tab |-> tab]
    ELSE IF \E t \in 1..Len(tab) : tab[t].symb = atom_symbol(mol, ia)
    THEN GenAtomicGridsFrom(ia + 1, tab, warned, mol, atom_grid, radi_method, level, prune)
    ELSE GenAtomicGridsNext(ia, tab, warned, mol, atom_grid, radi_method, level, prune,
                            AtomGrid(atom_symbol(mol, ia), ia, atom_grid, radi_method,
                                     level, prune))

gen_atomic_grids(mol, atom_grid, radi_method, level, prune) ==
    GenAtomicGridsFrom(1, <<>>, <<>>, mol, AtomGridDict(mol, atom_grid),
                       radi_method, level, prune)

\* atom_grids_tab[symb] and its two items (coords, vol), lines 227-240
TabGrid(tab, symb) == tab[CHOOSE t \in 1..Len(tab) : tab[t].symb = symb]
GridCoord(rad, d) == Array([c \in 1..3 |-> RMul(rad, I2R(d[c]))])
GridCoordsAt(g, pts) ==
    Array([q \in 1..Len(pts) |->
              GridCoord(g.rad[pts[q][1]], AngularDir(pts[q][2], pts[q][3]))])
GridVolsAt(g, pts) ==
    Array([q \in 1..Len(pts) |->
              RMul(g.rad_weight[pts[q][1]], AngularWeight(pts[q][2], pts[q][3]))])
GridCoords(g) == GridCoordsAt(g, AtomPoints(g.angs))
GridVols(g) == GridVolsAt(g, AtomVols(g.angs))

----------------------------------------------------------------------------
(* Becke partitioning: get_partition *)

\* lines 168-173 for one element of g: eq. 11 and 14 of Stratmann, Scuseria,
\* Frisch
StratmannPoly(ma, ma2) ==
    RMul(Rat(1, 16),
         RMul(ma, RAdd(I2R(35),
              RMul(ma2, RAdd(I2R(-35),
                   RMul(ma2, RSub(I2R(21), RMul(I2R(5), ma2))))))))
StratmannG1(ma) == StratmannPoly(ma, RMul(ma, ma))
StratmannCut(g, a) ==
    IF RLe(g, RNeg(a)) THEN I2R(-1)
    ELSE IF RLe(a, g) THEN One
    ELSE StratmannG1(RDiv(g, a))
stratmann(g) == StratmannCut(g, Rat(64, 100))

\* the body of original_becke is "pass": it returns None
original_becke(g) == None

\* the smoothing as the comment of original_becke gives it, g = (3 - g**2)*g*.5
\* three times; what the bulk kernel VXCgen_grid is specified to apply
BeckeStep(g) == RMul(RMul(RSub(I2R(3), RMul(g, g)), g), Half)
BeckeSmooth(g) == BeckeStep(BeckeStep(BeckeStep(g)))

becke_scheme_call(becke_scheme, g) ==
    IF becke_scheme = "stratmann" THEN stratmann(g) ELSE original_becke(g)

\* the radii adjustments of pyscf.dft.radi: f(i, j, g) = g + a_ij (1 - g^2);
\* a user-supplied adjustment shifts every boundary by the same a
RSqrt(x) == Rat(ISqrt(x[1]), ISqrt(x[2]))
RadiiClamp(a) ==
    IF RLt(Half, a) THEN Half
    ELSE IF RLt(a, RNeg(Half)) THEN RNeg(Half)
    ELSE a
RadiiAOfU(u) == RadiiClamp(RDiv(u, RSub(RMul(u, u), One)))
RadiiAOfChi(chi) == RadiiAOfU(RDiv(RSub(chi, One), RAdd(chi, One)))
RadiiRatio(mol, i, j) ==
    RDiv(BRAGG_RADII(charge(atom_symbol(mol, i))), BRAGG_RADII(charge(atom_symbol(mol, j))))
RadiiA(mol, radii_adjust, i, j) ==
    IF radii_adjust = "custom_radii_adjust" THEN Rat(8, 25)
    ELSE IF radii_adjust = "treutler_atomic_radii_adjust"
    THEN RadiiAOfChi(RSqrt(RadiiRatio(mol, i, j)))
    ELSE RadiiAOfChi(RadiiRatio(mol, i, j))
RadiiShift(a, g) == RAdd(g, RMul(a, RSub(One, RMul(g, g))))
f_radii_adjust_call(mol, radii_adjust, i, j, g) ==
    RadiiShift(RadiiA(mol, radii_adjust, i, j), g)

\* lines 258-261: the name of the adjustment in force, or "None"
f_radii_adjust(radii_adjust, atomic_radii) ==
    IF radii_adjust # "None" /\ atomic_radii # "None" THEN radii_adjust ELSE "None"

\* lines 264-267: whether the bulk kernel (fast path) is used
FastPath(radii_adjust, atomic_radii, becke_scheme) ==
    /\ becke_scheme = "original_becke"
    /\ \/ radii_adjust = "treutler_atomic_radii_adjust"
       \/ radii_adjust = "becke_atomic_radii_adjust"
       \/ f_radii_adjust(radii_adjust, atomic_radii) = "None"

V3Sub(a, b) == Array([c \in 1..3 |-> RSub(a[c], b[c])])
V3Add(a, b) == Array([c \in 1..3 |-> RAdd(a[c], b[c])])
V3Norm(a) == RSqrt(RAdd(RMul(a[1], a[1]), RAdd(RMul(a[2], a[2]), RMul(a[3], a[3]))))
\* gto.inter_distance(mol)[i, j]
atm_dist(mol, i, j) == V3Norm(V3Sub(mol.coords[i], mol.coords[j]))
\* lines 290-292: grid_dist[ia] at the point c
grid_dist(mol, c, ia) == V3Norm(V3Sub(c, mol.coords[ia]))

\* the (i, j) of "for i in range(natm): for j in range(i)", in loop order
RECURSIVE LoopPairs(_, _, _)
LoopPairs(i, j, n) ==
    IF i > n THEN <<>>
    ELSE IF j >= i THEN LoopPairs(i + 1, 1, n)
    ELSE << <<i, j>> >> \o LoopPairs(i, j + 1, n)

\* line 296
PairG(mol, c, i, j) ==
    RMul(RInv(atm_dist(mol, i, j)), RSub(grid_dist(mol, c, i), grid_dist(mol, c, j)))
\* lines 297-298
AdjustedG(mol, fra, i, j, g) ==
    IF fra # "None" THEN f_radii_adjust_call(mol, fra, i, j, g) ELSE g

\* lines 300-301 over the pairs still to come: pb is the column of pbecke at
\* one point, gs[q] the smoothed g of pair q
RECURSIVE PairProducts(_, _, _, _)
PairProducts(pairs, gs, q, pb) ==
    IF q > Len(pairs) THEN pb
    ELSE PairProducts(pairs, gs, q + 1,
             Array([a \in 1..Len(pb) |->
                 IF a = pairs[q][1] THEN RMul(pb[a], RMul(Half, RSub(One, gs[q])))
                 ELSE IF a = pairs[q][2] THEN RMul(pb[a], RMul(Half, RAdd(One, gs[q])))
                 ELSE pb[a]]))

\* lines 293-302 at one point: pbecke[:, c] from the smoothed g of every pair,
\* or None when the kernel returned None (1-g then raises TypeError)
ColumnOf(pairs, gs, n) ==
    IF \E q \in 1..Len(gs) : gs[q] = None THEN None
    ELSE PairProducts(pairs, gs, 1, Repeat(One, n))
\* lines 296-299 for every pair at the point c
GeneralGs(mol, c, fra, becke_scheme, pairs) ==
    Array([q \in 1..Len(pairs) |->
        becke_scheme_call(becke_scheme,
            AdjustedG(mol, fra, pairs[q][1], pairs[q][2],
                      PairG(mol, c, pairs[q][1], pairs[q][2])))])
GeneralColumn(mol, c, fra, becke_scheme) ==
    ColumnOf(LoopPairs(1, 1, natm(mol)),
             GeneralGs(mol, c, fra, becke_scheme, LoopPairs(1, 1, natm(mol))), natm(mol))

\* lines 276-285 at one point: the column VXCgen_grid fills, from its
\* specification (pairwise g, the optional radii table, three smoothing steps)
FastGs(mol, c, fra, pairs) ==
    Array([q \in 1..Len(pairs) |->
        BeckeSmooth(AdjustedG(mol, fra, pairs[q][1], pairs[q][2],
                              PairG(mol, c, pairs[q][1], pairs[q][2])))])
FastColumn(mol, c, fra) ==
    ColumnOf(LoopPairs(1, 1, natm(mol)),
             FastGs(mol, c, fra, LoopPairs(1, 1, natm(mol))), natm(mol))

\* gen_grid_partition(coords)[:, c]
PartitionColumn(mol, c, radii_adjust, atomic_radii, becke_scheme) ==
    IF FastPath(radii_adjust, atomic_radii, becke_scheme)
    THEN FastColumn(mol, c, f_radii_adjust(radii_adjust, atomic_radii))
    ELSE GeneralColumn(mol, c, f_radii_adjust(radii_adjust, atomic_radii), becke_scheme)
\* gen_grid_partition(coords), one column per point
gen_grid_partition(mol, coords, radii_adjust, atomic_radii, becke_scheme) ==
    Array([q \in 1..Len(coords) |->
        PartitionColumn(mol, coords[q], radii_adjust, atomic_radii, becke_scheme)])

\* pbecke.sum(axis=0) at one point
ColumnSum(pb) == SeqSum(pb)
\* line 310: vol * pbecke[ia] * (1./pbecke.sum(axis=0)) at one point
PartitionWeight(vol, pb, ia) == RMul(RMul(vol, pb[ia]), RInv(ColumnSum(pb)))

\* lines 306-312 for atom ia: [raised, coords, weights, pbecke]
AtomWeights(coords, vol, pbecke, ia) ==
    IF \E q \in 1..Len(pbecke) : pbecke[q] = None
    THEN [raised |-> "TypeError", coords |-> <<>>, weights |-> <<>>, pbecke |-> <<>>]
    ELSE [raised |-> "none", coords |-> coords,
          weights |-> Array([q \in 1..Len(pbecke) |-> PartitionWeight(vol[q], pbecke[q], ia)]),
          pbecke |-> pbecke]
AtomPartitionAt(mol, coords, vol, ia, radii_adjust, atomic_radii, becke_scheme) ==
    AtomWeights(coords, vol,
                gen_grid_partition(mol, coords, radii_adjust, atomic_radii, becke_scheme), ia)
ShiftCoords(gc, centre) == Array([q \in 1..Len(gc) |-> V3Add(gc[q], centre)])
AtomPartition(mol, tab, ia, radii_adjust, atomic_radii, becke_scheme) ==
    AtomPartitionAt(mol,
        ShiftCoords(GridCoords(TabGrid(tab, atom_symbol(mol, ia))), mol.coords[ia]),
        GridVols(TabGrid(tab, atom_symbol(mol, ia))),
        ia, radii_adjust, atomic_radii, becke_scheme)

\* lines 314-317 with concat=True (vstack of no arrays raises ValueError)
ConcatParts(n, parts) ==
    IF n = 0
    THEN [raised |-> "ValueError", coords |-> <<>>, weights |-> <<>>, pbecke |-> <<>>]
    ELSE IF \E ia \in 1..n : parts[ia].raised # "none"
    THEN [raised |-> "TypeError", coords |-> <<>>, weights |-> <<>>, pbecke |-> <<>>]
    ELSE [raised |-> "none",
          coords |-> Flatten(Array([ia \in 1..n |-> parts[ia].coords])),
          weights |-> Flatten(Array([ia \in 1..n |-> parts[ia].weights])),
          pbecke |-> Flatten(Array([ia \in 1..n |-> parts[ia].pbecke]))]
\* lines 304-317: [raised, coords, weights] and, for reference, the pbecke
\* column of every point
get_partition(mol, tab, radii_adjust, atomic_radii, becke_scheme) ==
    ConcatParts(natm(mol),
        Array([ia \in 1..natm(mol) |->
            AtomPartition(mol, tab, ia, radii_adjust, atomic_radii, becke_scheme)]))

----------------------------------------------------------------------------
(* Spatial grouping: arg_group_grids *)

GROUP_BOX_SIZE == 2
GROUP_BOUNDARY_PENALTY == 7

\* numpy.round (half to even) of a finite value, as an integer
RRound(a) ==
    LET q == a[1] \div a[2]
        r2 == 2 * (a[1] - q * a[2])
    IN  IF r2 < a[2] THEN q
        ELSE IF r2 > a[2] THEN q + 1
        ELSE IF q % 2 = 0 THEN q ELSE q + 1

RMinOf(S) == CHOOSE x \in S : \A y \in S : RLe(x, y)
RMaxOf(S) == CHOOSE x \in S : \A y \in S : RLe(y, x)
\* lines 352-354
Boundary0(mol, c) ==
    RSub(RMinOf({mol.coords[ia][c] : ia \in 1..natm(mol)}), I2R(GROUP_BOUNDARY_PENALTY))
Boundary1(mol, c) ==
    RAdd(RMaxOf({mol.coords[ia][c] : ia \in 1..natm(mol)}), I2R(GROUP_BOUNDARY_PENALTY))
\* line 356: the number of boxes along axis c
Boxes(mol, c, box_size) ==
    RRound(RMul(RSub(Boundary1(mol, c), Boundary0(mol, c)), RInv(box_size)))

\* lines 360-366 for one coordinate x along axis c
BoxClamp(id, boxes) ==
    IF id < -1 THEN -1
    ELSE IF id > boxes THEN boxes
    ELSE id
BoxEdge(mol, c, boxes) ==
    RDiv(RSub(Boundary1(mol, c), Boundary0(mol, c)), I2R(boxes))
BoxIdOf(mol, x, c, boxes) ==
    BoxClamp(RFloor(RMul(RSub(x, Boundary0(mol, c)), RInv(BoxEdge(mol, c, boxes)))), boxes)
BoxId(mol, x, c, box_size) == BoxIdOf(mol, x, c, Boxes(mol, c, box_size))
BoxIds(mol, coords, box_size) ==
    Array([k \in 1..Len(coords) |-> Array([c \in 1..3 |-> BoxId(mol, coords[k][c], c, box_size)])])

\* the row order of numpy.unique(axis=0): lexicographic
LexLess(a, b) ==
    \/ a[1] < b[1]
    \/ a[1] = b[1] /\ a[2] < b[2]
    \/ a[1] = b[1] /\ a[2] = b[2] /\ a[3] < b[3]
\* return_inverse: the rank of each row among the sorted unique rows
RevIdx(box_ids) ==
    Array([k \in 1..Len(box_ids) |->
        Cardinality({box_ids[j] : j \in {j \in 1..Len(box_ids) : LexLess(box_ids[j], box_ids[k])}})])

\* an argsort that breaks ties by descending position
ArgSortUnstable(keys) ==
    LET n == Len(keys)
        before(j, i) == keys[j] < keys[i] \/ (keys[j] = keys[i] /\ j > i)
        pos(i) == 1 + Cardinality({j \in 1..n : before(j, i)})
    IN  Array([p \in 1..n |-> CHOOSE i \in 1..n : pos(i) = p])

\* argsort(kind='stable'): positions ordered by key, ties by position
ArgSortStable(keys) ==
    LET n == Len(keys)
        before(j, i) == keys[j] < keys[i] \/ (keys[j] = keys[i] /\ j < i)
        pos(i) == 1 + Cardinality({j \in 1..n : before(j, i)})
    IN  Array([p \in 1..n |-> CHOOSE i \in 1..n : pos(i) = p])

arg_group_grids(mol, coords, box_size) ==
    ArgSortStable(RevIdx(BoxIds(mol, coords, box_size)))

----------------------------------------------------------------------------
(* The Grids object *)

VARIABLES
    \* the attributes of a Grids object
    mol, atom_grid, atomic_radii, radii_adjust, radi_method, becke_scheme,
    prune, level, alignment,
    coords, weights, atm_idx, quadrature_weights, non0tab, screen_index,
    \* the caller's side: the last call made, [op, key, raised, threshold,
    \* rho0, size0] with rho0 the density array as it was handed to
    \* prune_by_density_ and size0 the size of the object before the call,
    \* and rho, that same array as the caller finds it after the call (None
    \* when the last call took no array)
    rho, call,
    \* history: the seven grid attributes the stored grid was built under, or
    \* None
    built,
    \* for the specifications of single functions: arguments and result
    args, ret

gridvars == <<coords, weights, atm_idx, quadrature_weights, non0tab, screen_index>>
confvars == <<mol, atom_grid, atomic_radii, radii_adjust, radi_method,
              becke_scheme, prune, level, alignment>>
vars == <<confvars, gridvars, rho, call, built, args, ret>>

NELEC_ERROR_TOL == Rat(2, 100)

\* the molecules of the model: an Sb atom, and H2 with its first atom up the
\* z axis
V3(x, y, z) == <<I2R(x), I2R(y), I2R(z)>>
MolSb == [symb |-> <<"Sb">>, coords |-> <<V3(0, 0, 0)>>, nelectron |-> 51]
MolH2 == [symb |-> <<"H", "H">>, coords |-> <<V3(0, 0, 2), V3(0, 0, 0)>>, nelectron |-> 2]
Mols == {MolSb, MolH2}

\* explicit grids have up to MaxRad shells of one point; alignment is the
\* default, none, or pairs
MaxRad == 2
AlignVals == {1, 2, ALIGNMENT_UNIT}
AtomGridVals ==
    {{}} \cup {{<<AnySymb, n, 1>>} : n \in 1..MaxRad} \cup {{<<AnySymb, 1, 4>>}}
ThresholdVals == {I2R(-1), Zero, I2R(4)}
\* densities: one value at the first point and none elsewhere, or one everywhere
RhoVals == {One, I2R(13)}
RhoChoices(n) ==
    {Array([k \in 1..n |-> IF k = 1 THEN c ELSE Zero]) : c \in RhoVals}
        \cup {Array([k \in 1..n |-> One])}

\* the values a configuration attribute is assigned in the model
AttrVals(key) ==
    CASE key = "atom_grid" -> AtomGridVals
      [] key = "atomic_radii" -> {"BRAGG_RADII"}
      [] key = "radii_adjust" -> {"treutler_atomic_radii_adjust", "custom_radii_adjust"}
      [] key = "radi_method" -> {"treutler", "delley"}
      [] key = "becke_scheme" -> {"original_becke", "stratmann"}
      [] key = "prune" -> {"nwchem_prune"}
      [] key = "level" -> {3}
      [] key = "alignment" -> AlignVals
ConfigKeys == {"atom_grid", "atomic_radii", "radii_adjust", "radi_method",
               "becke_scheme", "prune", "level", "alignment"}

Cfg == <<atom_grid, atomic_radii, radii_adjust, radi_method, becke_scheme, prune, level>>
\* a call of op on the object as it is, before its arguments and outcome are
\* filled in
NoCall(op) == [op |-> op, key |-> "", raised |-> "none", threshold |-> Zero,
               rho0 |-> None, size0 |-> size(weights)]

\* __init__ (lines 466-486) over the class attributes (lines 445-457)
GridsNew(m) ==
    /\ mol = m
    /\ atom_grid = {}
    /\ atomic_radii = "BRAGG_RADII"
    /\ radii_adjust = "treutler_atomic_radii_adjust"
    /\ radi_method = "treutler"
    /\ becke_scheme = "original_becke"
    /\ prune = "nwchem_prune"
    /\ level = 3
    /\ alignment = ALIGNMENT_UNIT
    /\ coords = None /\ weights = None /\ atm_idx = None
    /\ quadrature_weights = None /\ non0tab = None /\ screen_index = None
    /\ rho = None
    /\ call = [op |-> "__init__", key |-> "", raised |-> "none", threshold |-> Zero,
               rho0 |-> None, size0 |-> 0]
    /\ built = None
GridsInit ==
    /\ \E m \in Mols : GridsNew(m)
    /\ args = None /\ ret = None

\* lines 565-570
ResetFields ==
    /\ coords' = None
    /\ weights' = None
    /\ non0tab' = None
    /\ screen_index' = None
    /\ atm_idx' = None
    /\ quadrature_weights' = None
    /\ built' = None

\* reset(mol): lines 561-571
Reset(m) ==
    /\ mol' = IF m = None THEN mol ELSE Val(m)
    /\ ResetFields
    /\ UNCHANGED <<atom_grid, atomic_radii, radii_adjust, radi_method, becke_scheme,
                   prune, level, alignment, args, ret>>
    /\ rho' = None
    /\ call' = NoCall("reset")

\* the keys of __setattr__ without level
GridKeysNoLevel ==
    {"atom_grid", "atomic_radii", "radii_adjust", "radi_method", "becke_scheme", "prune"}

\* lines 493-494: the keys whose assignment resets the object
GridKeys ==
    {"atom_grid", "atomic_radii", "radii_adjust", "radi_method", "becke_scheme",
     "prune", "level"}

\* __setattr__(key, val): lines 492-496
SetAttr(key, val) ==
    /\ IF key \in GridKeys THEN ResetFields ELSE UNCHANGED <<gridvars, built>>
    /\ atom_grid' = IF key = "atom_grid" THEN val ELSE atom_grid
    /\ atomic_radii' = IF key = "atomic_radii" THEN val ELSE atomic_radii
    /\ radii_adjust' = IF key = "radii_adjust" THEN val ELSE radii_adjust
    /\ radi_method' = IF key = "radi_method" THEN val ELSE radi_method
    /\ becke_scheme' = IF key = "becke_scheme" THEN val ELSE becke_scheme
    /\ prune' = IF key = "prune" THEN val ELSE prune
    /\ level' = IF key = "level" THEN val ELSE level
    /\ alignment' = IF key = "alignment" THEN val ELSE alignment
    /\ call' = [NoCall("__setattr__") EXCEPT !.key = key]
    /\ rho' = None
    /\ UNCHANGED <<mol, args, ret>>

\* make_mask(mol, coords): the screening index of eval_gto, a function of its
\* arguments that the model keeps unevaluated
make_mask(m, c) == <<m.symb, c>>

\* lines 539-547 and 605-613: the four arrays with the padding appended
PadCount(n, align) == IF align > 1 THEN _padding_size(n, align) ELSE 0
PadCoords(c, padding) == c \o Repeat(PadCoord, padding)
\* appended weights of one instead of zero
PadWeightsOnes(w, padding) == w \o Repeat(One, padding)
PadWeights(w, padding) == w \o Repeat(Zero, padding)
PadAtmIdx(a, padding) == a \o Repeat(-1, padding)
Padded(g, align) ==
    LET padding == PadCount(Len(g.weights), align)
    IN  [coords |-> PadCoords(g.coords, padding),
         weights |-> PadWeights(g.weights, padding),
         atm_idx |-> PadAtmIdx(g.atm_idx, padding),
         quadrature_weights |-> PadWeights(g.quadrature_weights, padding)]

\* lines 521-530: the owning atom (0-based) and the raw quadrature weight of
\* every point, atom after atom
BuildAtmIdx(m, tab) ==
    Flatten(Array([ia \in 1..natm(m) |->
                Repeat(ia - 1, Len(GridVols(TabGrid(tab, atom_symbol(m, ia)))))]))
BuildQuadratureWeights(m, tab) ==
    Flatten(Array([ia \in 1..natm(m) |-> GridVols(TabGrid(tab, atom_symbol(m, ia)))]))

\* The model builds the grids whose angular rule it tabulates: every element
\* has an explicit atom_grid item that resolves to the 1-point rule or to
\* none.  (The grids of the default level tables start at 10 shells of 50
\* points per atom.)
Tabulated(m) ==
    LET d == AtomGridDict(m, atom_grid)
    IN  \A ia \in 1..natm(m) :
           /\ InAtomGrid(atom_symbol(m, ia), d)
           /\ LET r == ResolveAng(AtomGridItem(atom_symbol(m, ia), d)[3])
              IN  r.raised # "none" \/ r.n_ang = 1

\* a sort that reorders coords and weights only
SortedCoordsOnly(g, idx) ==
    [coords |-> Take(g.coords, idx), weights |-> Take(g.weights, idx),
     atm_idx |-> g.atm_idx, quadrature_weights |-> g.quadrature_weights]

\* lines 532-537: the four arrays in the order idx
Sorted(g, idx) ==
    [coords |-> Take(g.coords, idx), weights |-> Take(g.weights, idx),
     atm_idx |-> Take(g.atm_idx, idx),
     quadrature_weights |-> Take(g.quadrature_weights, idx)]

\* lines 516-530: [raised, coords, weights, atm_idx, quadrature_weights] before
\* sorting and padding
BuildRawFromPart(part, ai, qw) ==
    [raised |-> part.raised, coords |-> part.coords, weights |-> part.weights,
     atm_idx |-> ai, quadrature_weights |-> qw]
BuildRawFromTab(m, gen, ra, ar, bs) ==
    IF gen.raised # "none"
    THEN [raised |-> gen.raised, coords |-> <<>>, weights |-> <<>>,
          atm_idx |-> <<>>, quadrature_weights |-> <<>>]
    ELSE BuildRawFromPart(get_partition(m, gen.tab, ra, ar, bs),
                          BuildAtmIdx(m, gen.tab), BuildQuadratureWeights(m, gen.tab))
BuildRaw(m, ag, rm, lv, pr, ra, ar, bs) ==
    BuildRawFromTab(m, gen_atomic_grids(m, ag, rm, lv, pr), ra, ar, bs)

\* lines 539-553: the assignments of build, p the padded arrays
BuildStore(p, with_non0tab) ==
    /\ coords' = Arr(p.coords)
    /\ weights' = Arr(p.weights)
    /\ atm_idx' = Arr(p.atm_idx)
    /\ quadrature_weights' = Arr(p.quadrature_weights)
    /\ non0tab' = IF with_non0tab THEN make_mask(mol, p.coords) ELSE None
    /\ screen_index' = IF with_non0tab THEN make_mask(mol, p.coords) ELSE None
    /\ built' = Arr(Cfg)
\* lines 518-555, raw the arrays of lines 516-530
BuildFrom(raw) ==
    /\ call' = [NoCall("build") EXCEPT !.raised = raw.raised]
    /\ IF raw.raised # "none"
       THEN UNCHANGED <<gridvars, built>>
       ELSE \E with_non0tab \in BOOLEAN, sort_grids \in BOOLEAN :
               BuildStore(Padded(IF sort_grids
                                 THEN Sorted(raw, arg_group_grids(mol, raw.coords,
                                                                  I2R(GROUP_BOX_SIZE)))
                                 ELSE raw,
                                 alignment),
                          with_non0tab)
\* build(mol=None, with_non0tab, sort_grids): lines 512-555
Build ==
    /\ Tabulated(mol)
    /\ BuildFrom(BuildRaw(mol, atom_grid, radi_method, level, prune,
                          radii_adjust, atomic_radii, becke_scheme))
    /\ rho' = None
    /\ UNCHANGED <<confvars, args, ret>>

\* line 595: numpy.dot(rho, self.weights)
Dot(r, w) == SeqSum(Array([k \in 1..Len(w) |-> RMul(r[k], w[k])]))
\* line 596: abs(n - mol.nelectron) < NELEC_ERROR_TOL * n
NelecClose(n, nelectron) ==
    RLt(RAbs(RSub(n, I2R(nelectron))), RMul(NELEC_ERROR_TOL, n))
SanityCheck(r, w, m) == NelecClose(Dot(r, w), m.nelectron)

\* a mask that keeps the entries at or above the cut
KeepMaskGe(rw, threshold) ==
    Array([k \in 1..Len(rw) |-> RLe(RDiv(threshold, I2R(Len(rw))), RAbs(rw[k]))])

\* line 598: abs(rho) > threshold / self.weights.size, rho already rho*weights
KeepMask(rw, threshold) ==
    Array([k \in 1..Len(rw) |-> RLt(RDiv(threshold, I2R(Len(rw))), RAbs(rw[k]))])

\* a pruning that skips the sanity check
PruneAlways(r, w, m) == TRUE

\* whether prune_by_density_ goes on to prune (line 596)
PruneGuard(r, w, m) == SanityCheck(r, w, m)

\* line 597: rho *= self.weights, in place
RhoTimesWeights(r, w) == Array([k \in 1..Len(w) |-> RMul(r[k], w[k])])

\* the four stored arrays
StoredGrid ==
    [coords |-> Val(coords), weights |-> Val(weights), atm_idx |-> Val(atm_idx),
     quadrature_weights |-> Val(quadrature_weights)]
\* lines 601-613: the arrays g cut to the mask idx and padded
Pruned(g, idx, align) ==
    Padded([coords |-> Compress(g.coords, idx), weights |-> Compress(g.weights, idx),
            atm_idx |-> Compress(g.atm_idx, idx),
            quadrature_weights |-> Compress(g.quadrature_weights, idx)], align)
\* the assignments of lines 597-615, rw the array rho after line 597
PruneStore(p, rw) ==
    /\ rho' = Arr(rw)
    /\ coords' = Arr(p.coords)
    /\ weights' = Arr(p.weights)
    /\ atm_idx' = Arr(p.atm_idx)
    /\ quadrature_weights' = Arr(p.quadrature_weights)
    /\ non0tab' = make_mask(mol, p.coords)
    /\ screen_index' = make_mask(mol, p.coords)
\* lines 594-615
PruneApply(r, threshold, rw) ==
    IF PruneGuard(r, Val(weights), mol)
    THEN PruneStore(Pruned(StoredGrid, KeepMask(rw, threshold), alignment), rw)
    ELSE /\ rho' = Arr(r)
         /\ UNCHANGED gridvars
\* prune_by_density_(rho, threshold): lines 589-616; r is the caller's array.
\* On an object without a grid numpy.dot(rho, None) raises TypeError.
PruneByDensity(r, threshold) ==
    /\ UNCHANGED <<confvars, built, args, ret>>
    /\ call' = [NoCall("prune_by_density_") EXCEPT
                   !.threshold = threshold, !.rho0 = Arr(r),
                   !.raised = IF threshold # Zero /\ weights = None
                              THEN "TypeError" ELSE "none"]
    /\ IF threshold = Zero \/ weights = None
       THEN /\ rho' = Arr(r)
            /\ UNCHANGED gridvars
       ELSE PruneApply(r, threshold, RhoTimesWeights(r, Val(weights)))

Next ==
    \/ \E key \in ConfigKeys : \E val \in AttrVals(key) : SetAttr(key, val)
    \/ \E m \in {None} \cup {Arr(x) : x \in Mols} : Reset(m)
    \/ Build
    \/ \E threshold \in ThresholdVals :
          \E r \in RhoChoices(IF weights = None THEN 1 ELSE size(weights)) :
             PruneByDensity(r, threshold)

Spec == GridsInit /\ [][Next]_vars

----------------------------------------------------------------------------
(* Specifications of single functions.  The Grids object stays as             *)
(* constructed; args holds the arguments of one call, drawn from a bounded    *)
(* set, and ret its result once the function has been applied.                *)

idlevars == <<confvars, gridvars, rho, call, built, args>>
FunInit(inputs) ==
    /\ GridsNew(MolSb)
    /\ args \in {Arr(x) : x \in inputs}
    /\ ret = None

\* _padding_size (lines 656-659) and the padding of lines 539-547, on grids
\* of up to MaxGrid points under alignments up to MaxPadAlign
MaxGrid == 64
MaxPadAlign == 9
\* a grid of n points of atom 0
UnitGrid(n) ==
    [coords |-> Repeat(V3(0, 0, 1), n), weights |-> Repeat(One, n),
     atm_idx |-> Repeat(0, n), quadrature_weights |-> Repeat(I2R(2), n)]
PadInputs == [ngrids : 0..MaxGrid, alignment : 0..MaxPadAlign]
PadResult(n, a, g) ==
    [padding |-> _padding_size(n, a), grid |-> g, again |-> Padded(g, a)]
PadCall ==
    /\ ret = None
    /\ ret' = Arr(PadResult(Val(args).ngrids, Val(args).alignment,
                            Padded(UnitGrid(Val(args).ngrids), Val(args).alignment)))
    /\ UNCHANGED idlevars
SpecPad == FunInit(PadInputs) /\ [][PadCall]_vars

\* gen_atomic_grids on molecules of H and O with per-element overrides of
\* MaxRad shells and angular counts up to MaxAng
MaxAng == 6
MolH == [symb |-> <<"H">>, coords |-> <<V3(0, 0, 0)>>, nelectron |-> 1]
MolHO == [symb |-> <<"H", "O">>, coords |-> <<V3(0, 0, 0), V3(0, 0, 2)>>, nelectron |-> 9]
MolOH == [symb |-> <<"O", "H">>, coords |-> <<V3(0, 0, 0), V3(0, 0, 2)>>, nelectron |-> 9]
MolOHH ==
    [symb |-> <<"O", "H", "H">>, coords |-> <<V3(0, 0, 0), V3(0, 0, 2), V3(0, 0, -2)>>,
     nelectron |-> 10]
MolHOH ==
    [symb |-> <<"H", "O", "H">>, coords |-> <<V3(0, 0, 2), V3(0, 0, 0), V3(0, 0, -2)>>,
     nelectron |-> 10]
AtomicMols == {MolH, MolHO, MolOH, MolOHH, MolHOH}
\* atom_grid as a dict with at most one item per element, or as a tuple
AtomicGridVals ==
    {hs \cup os : hs \in {{}} \cup {{<<"H", MaxRad, n>>} : n \in 1..MaxAng},
                  os \in {{}} \cup {{<<"O", MaxRad, n>>} : n \in 1..MaxAng}}
        \cup {{<<AnySymb, MaxRad, n>>} : n \in 1..MaxAng}
AtomicInputs ==
    [mol : AtomicMols, atom_grid : AtomicGridVals, radi_method : {"treutler"}, level : {3},
     prune : {"nwchem_prune", "None"}]
AtomicCall ==
    /\ ret = None
    /\ ret' = Arr(gen_atomic_grids(Val(args).mol, Val(args).atom_grid, Val(args).radi_method,
                                   Val(args).level, Val(args).prune))
    /\ UNCHANGED idlevars
SpecAtomicGrids == FunInit(AtomicInputs) /\ [][AtomicCall]_vars

\* arg_group_grids on up to MaxPts points around H2: inside one box, in
\* neighbouring boxes, and beyond the boundary on either side
MaxPts == 3
GroupPts ==
    {V3(0, 0, 1), V3(0, 0, 2), V3(0, 0, 0), V3(3, 0, 1), V3(0, 0, -10), V3(0, 0, 20)}
RECURSIVE SeqsUpTo(_, _)
SeqsUpTo(S, n) ==
    IF n = 0 THEN {<<>>}
    ELSE SeqsUpTo(S, n - 1)
            \cup {Append(q, x) : q \in {q \in SeqsUpTo(S, n - 1) : Len(q) = n - 1}, x \in S}
GroupInputs ==
    [mol : {MolH2}, coords : SeqsUpTo(GroupPts, MaxPts), box_size : {I2R(GROUP_BOX_SIZE)}]
GroupCall ==
    /\ ret = None
    /\ ret' = Arr(arg_group_grids(Val(args).mol, Val(args).coords, Val(args).box_size))
    /\ UNCHANGED idlevars
SpecGroup == FunInit(GroupInputs) /\ [][GroupCall]_vars

\* get_partition on explicit one-point grids of up to MaxRad shells: one
\* atom, H2, H and He one unit apart, and two H atoms at the same place
MolHHe == [symb |-> <<"H", "He">>, coords |-> <<V3(0, 0, 0), V3(0, 0, 1)>>, nelectron |-> 3]
MolHH0 == [symb |-> <<"H", "H">>, coords |-> <<V3(0, 0, 0), V3(0, 0, 0)>>, nelectron |-> 2]
PartitionMols == {MolSb, MolH2, MolHHe, MolHH0}
PartitionInputs ==
    [mol : PartitionMols, n_rad : 1..MaxRad, radi_method : {"treutler", "delley"},
     radii_adjust : {"None", "treutler_atomic_radii_adjust", "becke_atomic_radii_adjust",
                     "custom_radii_adjust"},
     atomic_radii : {"BRAGG_RADII", "None"}, becke_scheme : {"original_becke", "stratmann"}]
PartitionResult(m, tab, part, ra, ar, bs) ==
    [raised |-> part.raised, coords |-> part.coords, weights |-> part.weights,
     pbecke |-> part.pbecke,
     atm_idx |-> BuildAtmIdx(m, tab), vol |-> BuildQuadratureWeights(m, tab),
     fast |-> FastPath(ra, ar, bs)]
PartitionOn(m, tab, ra, ar, bs) ==
    PartitionResult(m, tab, get_partition(m, tab, ra, ar, bs), ra, ar, bs)
PartitionOf(a) ==
    PartitionOn(a.mol, gen_atomic_grids(a.mol, {<<AnySymb, a.n_rad, 1>>}, a.radi_method, 3,
                                        "None").tab,
                a.radii_adjust, a.atomic_radii, a.becke_scheme)
PartitionCall ==
    /\ ret = None
    /\ ret' = Arr(PartitionOf(Val(args)))
    /\ UNCHANGED idlevars
SpecPartition == FunInit(PartitionInputs) /\ [][PartitionCall]_vars

\* the pruning policies on up to MaxShells radial points inside and outside
\* the regions of the element, for H, O and Sb and supported angular counts
MaxShells == 3
PruneRads == {Rat(1, 10), Rat(2, 5), I2R(1), I2R(30)}
PruneNAngs == {1, 6, 14, 38, 50, 74, 86, 302}
PruneInputs ==
    [prune : {"sg1_prune", "nwchem_prune", "treutler_prune"}, nuc : {1, 8, 51},
     rads : SeqsUpTo(PruneRads, MaxShells), n_ang : PruneNAngs]
PruneCall ==
    /\ ret = None
    /\ ret' = Arr(PruneAngs(Val(args).prune, Val(args).nuc, Val(args).rads, Val(args).n_ang,
                            Len(Val(args).rads)))
    /\ UNCHANGED idlevars
SpecPrune == FunInit(PruneInputs) /\ [][PruneCall]_vars

\* the boxes of arg_group_grids for the default box size and the odd box
\* sizes up to 2 MaxBoxHalf - 1 length units (17.4 Bohr), on one atom, H2 and
\* water, for a point inside or outside the boundary
MaxBoxHalf == 15
BoxInputs ==
    [mol : {MolSb, MolH2, MolOHH}, coords : {<<x>> : x \in GroupPts},
     box_size : {I2R(GROUP_BOX_SIZE)} \cup {I2R(2 * b - 1) : b \in 1..MaxBoxHalf}]
\* lines 352-366: the number of boxes per axis, the edge lengths of line 360
\* and the clamped box ids of every point; the function raises nowhere
BoxResult(m, c, box_size) ==
    [raised |-> "none",
     boxes |-> Array([x \in 1..3 |-> Boxes(m, x, box_size)]),
     edge |-> Array([x \in 1..3 |-> BoxEdge(m, x, Boxes(m, x, box_size))]),
     box_ids |-> BoxIds(m, c, box_size)]
BoxCall ==
    /\ ret = None
    /\ ret' = Arr(BoxResult(Val(args).mol, Val(args).coords, Val(args).box_size))
    /\ UNCHANGED idlevars
SpecBoxes == FunInit(BoxInputs) /\ [][BoxCall]_vars

\* the point and weight lists of lines 227-240 for per-shell angular counts
\* on up to MaxPointShells shells: one count on every shell, two counts
\* alternating, two counts on the inner and the outer half, and one count on
\* all shells but the innermost
MaxPointShells == 14
PointAngs == {1, 6, 14}
PointInputs ==
    {[angs |-> Array([k \in 1..len |-> IF pat = "all" \/ (pat = "alt" /\ k % 2 = 1)
                                          \/ (pat = "half" /\ 2 * k <= len)
                                          \/ (pat = "outer" /\ k > 1)
                                       THEN n1 ELSE n2])] :
        len \in 0..MaxPointShells, pat \in {"all", "alt", "half", "outer"},
        n1 \in PointAngs, n2 \in PointAngs}
PointsCall ==
    /\ ret = None
    /\ ret' = Arr([points |-> AtomPoints(Val(args).angs), vols |-> AtomVols(Val(args).angs)])
    /\ UNCHANGED idlevars
SpecPoints == FunInit(PointInputs) /\ [][PointsCall]_vars

----------------------------------------------------------------------------
(* Properties of the Grids object, checked under Spec *)

\* the six stored fields are all unset
AllUnset ==
    /\ coords = None /\ weights = None /\ atm_idx = None
    /\ quadrature_weights = None /\ non0tab = None /\ screen_index = None

C2_AssignmentDiscards ==
    /\ [](call.op = "__setattr__"
            /\ call.key \in {"atom_grid", "atomic_radii", "radii_adjust", "radi_method",
                             "becke_scheme", "prune", "level"}
          => AllUnset /\ size(weights) = 0)
    /\ [][AllUnset /\ ~AllUnset' => call'.op = "build"]_vars
    /\ [](weights # None => built # None /\ Val(built) = Cfg)
\* level has been assigned on an object that held a grid
C2_Witness ==
    /\ call.op = "__setattr__" /\ call.key = "level"
    /\ call.size0 > 0
    /\ weights = None

\* the density-weighted sum of r over the weights w is within 2% of the
\* electron count of m
WithinTolerance(r, w, m) ==
    RLt(RAbs(RSub(Dot(r, w), I2R(m.nelectron))), RMul(Rat(2, 100), Dot(r, w)))

\* C4: a prune_by_density_ with threshold 0, or on a grid where the
\* density-weighted sum is not within the tolerance of the electron count,
\* raises nothing and leaves the six stored fields as they were
C4_PruneSkipped ==
    [][/\ call'.op = "prune_by_density_"
       /\ \/ call'.threshold = Zero
          \/ weights # None /\ ~WithinTolerance(Val(call'.rho0), Val(weights), mol)
       => call'.raised = "none" /\ UNCHANGED gridvars]_vars
\* a pruning with a non-zero threshold was skipped on a built grid
C4_Witness ==
    /\ call.op = "prune_by_density_"
    /\ call.threshold # Zero
    /\ weights # None
    /\ ~WithinTolerance(Val(call.rho0), Val(weights), mol)

\* new is old at the positions ks, in that order, followed by entries pad
KeptThenPad(new, old, ks, pad) ==
    /\ Len(new) >= Len(ks)
    /\ \A i \in 1..Len(new) : new[i] = IF i <= Len(ks) THEN old[ks[i]] ELSE pad
\* the step is a prune_by_density_ with a non-zero threshold on a grid whose
\* sanity check passes
PruneCase ==
    /\ call'.op = "prune_by_density_"
    /\ call'.threshold # Zero
    /\ weights # None
    /\ WithinTolerance(Val(call'.rho0), Val(weights), mol)
\* the step keeps the points at the positions ks (ascending), in order and
\* with their four values, pads to a multiple of alignment and recomputes the
\* masks
PruneKeeps(ks) ==
    /\ KeptThenPad(Val(coords'), Val(coords), ks, PadCoord)
    /\ KeptThenPad(Val(weights'), Val(weights), ks, Zero)
    /\ KeptThenPad(Val(atm_idx'), Val(atm_idx), ks, -1)
    /\ KeptThenPad(Val(quadrature_weights'), Val(quadrature_weights), ks, Zero)
    /\ Len(Val(coords')) = Len(Val(weights'))
    /\ Len(Val(atm_idx')) = Len(Val(weights'))
    /\ Len(Val(quadrature_weights')) = Len(Val(weights'))
    /\ alignment > 1 =>
          /\ Len(Val(weights')) % alignment = 0
          /\ Len(Val(weights')) - Len(ks) < alignment
    /\ alignment <= 1 => Len(Val(weights')) = Len(ks)
    /\ non0tab' = make_mask(mol, Val(coords'))
    /\ screen_index' = make_mask(mol, Val(coords'))
\* |rho x weight| at position k of the grid before the call
AbsRhoW(k) == RAbs(RMul(Val(call'.rho0)[k], Val(weights)[k]))
\* threshold / N, N the point count before the call
PruneCut == RDiv(call'.threshold, I2R(size(weights)))
\* the positions 1..N of the grid before the call
Positions == Array([k \in 1..size(weights) |-> k])

\* C5 as stated: the discarded points are exactly those whose |rho x weight|
\* is below threshold / N
C5_DropsBelow ==
    [][PruneCase =>
         \A ks \in {SelectSeq(Positions, LAMBDA k : ~RLt(AbsRhoW(k), PruneCut))} :
            PruneKeeps(ks)]_vars
\* C5 as amended: the discarded points are exactly those whose |rho x weight|
\* is at or below threshold / N; the others keep their order and their four
\* values, the result is padded to a multiple of alignment, and non0tab and
\* screen_index are computed from the new coords
C5_DropsAtOrBelow ==
    [][PruneCase =>
         \A ks \in {SelectSeq(Positions, LAMBDA k : RLt(PruneCut, AbsRhoW(k)))} :
            PruneKeeps(ks)]_vars
\* a pruning went through, dropped a point and kept a point
C5_Witness ==
    /\ call.op = "prune_by_density_"
    /\ call.threshold # Zero
    /\ rho # call.rho0
    /\ size(weights) < call.size0
    /\ \E k \in 1..size(weights) : Val(atm_idx)[k] >= 0

\* C10 as stated: prune_by_density_ returns with the caller's array rho
\* holding the values it had at the call
C10_RhoUntouched == call.op = "prune_by_density_" => rho = call.rho0

\* row k of the stored grid
StoredRow(k) ==
    <<Val(coords)[k], Val(weights)[k], Val(atm_idx)[k], Val(quadrature_weights)[k]>>
\* the rows of atom ia: each point of its atomic grid translated to the atom,
\* with its partitioned weight, the atom and its quadrature weight
AtomRows(ia, part, vol) ==
    Array([q \in 1..Len(vol) |-> <<part.coords[q], part.weights[q], ia - 1, vol[q]>>])
\* the rows of all atoms under the object's configuration, atom after atom
ExpectedRows(tab) ==
    Flatten(Array([ia \in 1..natm(mol) |->
        AtomRows(ia, AtomPartition(mol, tab, ia, radii_adjust, atomic_radii, becke_scheme),
                 GridVols(TabGrid(tab, atom_symbol(mol, ia))))]))
\* the stored grid holds the rows, each as often as it occurs in rows,
\* followed by padding rows only
RowsKept(rows) ==
    /\ size(weights) >= Len(rows)
    /\ Len(Val(coords)) = size(weights) /\ Len(Val(atm_idx)) = size(weights)
    /\ Len(Val(quadrature_weights)) = size(weights)
    /\ \A k \in 1..Len(rows) :
          /\ Val(atm_idx)[k] # -1
          /\ Cardinality({j \in 1..Len(rows) : StoredRow(j) = StoredRow(k)})
                = Cardinality({j \in 1..Len(rows) : rows[j] = StoredRow(k)})
    /\ \A k \in (Len(rows) + 1)..size(weights) : StoredRow(k) = <<PadCoord, Zero, -1, Zero>>
    /\ IF alignment > 1
       THEN size(weights) % alignment = 0 /\ size(weights) - Len(rows) < alignment
       ELSE size(weights) = Len(rows)

\* C14: after a build the non-padding rows (coords, weight, atm_idx,
\* quadrature weight) of the stored grid are, as a multiset, the rows of the
\* atoms' translated atomic grids, each with its own atom and its own
\* pre-partition weight, whether or not the grid was sorted; the padding
\* rows follow them at the end
C14_RowsFollowAtoms ==
    call.op = "build" /\ call.raised = "none" =>
        \A rows \in {ExpectedRows(gen_atomic_grids(mol, atom_grid, radi_method, level,
                                                   prune).tab)} :
           RowsKept(rows)
\* a build of H2 has stored the points of the second atom before those of
\* the first and padded the grid
C14_Witness ==
    /\ call.op = "build" /\ call.raised = "none"
    /\ size(weights) >= 3
    /\ Val(atm_idx)[1] = 1
    /\ \E k \in 2..size(weights) : Val(atm_idx)[k] = 0
    /\ Val(atm_idx)[size(weights)] = -1

----------------------------------------------------------------------------
(* Properties of single functions *)

\* the entries of g from position n + 1 on are padding entries
PaddingTail(g, n) ==
    \A k \in (n + 1)..Len(g.weights) :
       /\ g.weights[k] = Zero
       /\ g.atm_idx[k] = -1
       /\ g.quadrature_weights[k] = Zero
\* the first n entries of g are those of g0
SameHead(g, g0, n) ==
    \A k \in 1..n :
       /\ g.coords[k] = g0.coords[k]
       /\ g.weights[k] = g0.weights[k]
       /\ g.atm_idx[k] = g0.atm_idx[k]
       /\ g.quadrature_weights[k] = g0.quadrature_weights[k]
PaddedTo(g, len) ==
    /\ Len(g.coords) = len /\ Len(g.weights) = len
    /\ Len(g.atm_idx) = len /\ Len(g.quadrature_weights) = len
RoundsUp(n, a, r) ==
    IF a > 1
    THEN /\ r.padding \in 0..(a - 1)
         /\ (n + r.padding) % a = 0
         /\ n % a = 0 => r.padding = 0
         /\ PaddedTo(r.grid, n + r.padding)
         /\ SameHead(r.grid, UnitGrid(n), n)
         /\ PaddingTail(r.grid, n)
         /\ r.again = r.grid
    ELSE /\ r.padding = 0
         /\ r.grid = UnitGrid(n)

\* C3: with alignment a > 1 the padding p of n points satisfies 0 <= p < a
\* and (n + p) mod a = 0, the appended entries have weight 0 and atom index
\* -1, and padding the padded grid again appends nothing; with alignment <= 1
\* nothing is appended
C3_PaddingRoundsUp ==
    ret # None => RoundsUp(Val(args).ngrids, Val(args).alignment, Val(ret))
\* 61 points under alignment 8 have become 64, the last 3 of them padding
C3_Witness ==
    /\ ret # None
    /\ Val(args).ngrids = 61 /\ Val(args).alignment = 8
    /\ Len(Val(ret).grid.weights) = 64
    /\ \A k \in 62..64 : Val(ret).grid.weights[k] = Zero /\ Val(ret).grid.atm_idx[k] = -1

\* the supported Lebedev sizes, and the keys of the order-to-size table
SupportedAng(n) == \E k \in 1..Len(LebedevItems) : LebedevItems[k][2] = n
MappedAng(n) == \E k \in 1..Len(LebedevItems) : LebedevItems[k][1] = n
MappedSize(n) == LebedevItems[CHOOSE k \in 1..Len(LebedevItems) : LebedevItems[k][1] = n][2]
\* the explicit angular count of the element symb under atom_grid ag
HasOverride(ag, symb) == \E e \in ag : e[1] \in {symb, AnySymb}
OverrideAng(ag, symb) == (CHOOSE e \in ag : e[1] \in {symb, AnySymb})[3]
\* the grid the table tab holds for the element symb
TabEntry(tab, symb) == tab[CHOOSE t \in 1..Len(tab) : tab[t].symb = symb]
Warned(r, symb) == \E w \in 1..Len(r.warned) : r.warned[w][3] = symb
AngResolved(a, r, over) ==
    IF \E symb \in over : ~SupportedAng(OverrideAng(a.atom_grid, symb))
                            /\ ~MappedAng(OverrideAng(a.atom_grid, symb))
    THEN r.raised = "ValueError" /\ r.tab = None
    ELSE /\ r.raised = "none"
         /\ \A symb \in over :
               /\ TabEntry(r.tab, symb).n_ang =
                     IF SupportedAng(OverrideAng(a.atom_grid, symb))
                     THEN OverrideAng(a.atom_grid, symb)
                     ELSE MappedSize(OverrideAng(a.atom_grid, symb))
               /\ Warned(r, symb) <=> ~SupportedAng(OverrideAng(a.atom_grid, symb))
               /\ a.prune = "None" =>
                     \A k \in 1..Len(TabEntry(r.tab, symb).angs) :
                        TabEntry(r.tab, symb).angs[k] = TabEntry(r.tab, symb).n_ang
         /\ \A w \in 1..Len(r.warned) : r.warned[w][3] \in over

\* C6: for the elements of the molecule that have an explicit angular count:
\* if one of the counts is neither a supported size nor a key of the
\* order-to-size table the call raises ValueError and returns no table;
\* otherwise a supported count is used as given without a warning and an
\* unsupported one is replaced by the mapped size with a warning
C6_AngularCountResolved ==
    ret # None =>
        AngResolved(Val(args), Val(ret),
                    {Val(args).mol.symb[ia] : ia \in
                        {ia \in 1..Len(Val(args).mol.symb) :
                            HasOverride(Val(args).atom_grid, Val(args).mol.symb[ia])}})
\* an element that is not the first atom got a mapped size and a warning,
\* another element a supported size
C6_Witness ==
    /\ ret # None
    /\ Val(ret).raised = "none"
    /\ Len(Val(ret).warned) = 1
    /\ Val(ret).warned[1][2] > 1
    /\ Val(ret).warned[1][1] = 5 /\ Val(ret).warned[1][4] = 14
    /\ \E e \in Val(args).atom_grid : e[3] = 6

\* the box of point k of the call
BoxOfPoint(a, k) ==
    <<BoxId(a.mol, a.coords[k][1], 1, a.box_size), BoxId(a.mol, a.coords[k][2], 2, a.box_size),
      BoxId(a.mol, a.coords[k][3], 3, a.box_size)>>
\* the inverse of the permutation idx
InversePerm(idx) == Array([k \in 1..Len(idx) |-> CHOOSE q \in 1..Len(idx) : idx[q] = k])
StableGrouping(a, idx, n) ==
    /\ Len(idx) = n
    /\ {idx[q] : q \in 1..n} = 1..n
    /\ \A q1, q2 \in 1..n :
          q1 < q2 /\ BoxOfPoint(a, idx[q1]) = BoxOfPoint(a, idx[q2]) =>
             /\ idx[q1] < idx[q2]
             /\ \A q \in q1..q2 : BoxOfPoint(a, idx[q]) = BoxOfPoint(a, idx[q1])
    /\ Take(Take(a.coords, idx), InversePerm(idx)) = a.coords

\* C7: the result of arg_group_grids is a permutation of the positions of
\* the input points; after it the points of one box are contiguous and keep
\* their original relative order; applying it and then its inverse gives the
\* original array back
C7_StablePermutation ==
    ret # None => StableGrouping(Val(args), Val(ret), Len(Val(args).coords))
\* two points of one box came with a point of a lower box after them
C7_Witness ==
    /\ ret # None
    /\ Len(Val(args).coords) = 3
    /\ BoxOfPoint(Val(args), 1) = BoxOfPoint(Val(args), 2)
    /\ Val(args).coords[1] # Val(args).coords[2]
    /\ Val(ret) = <<3, 1, 2>>

\* the weight w of a point of atom ia with raw weight vol and partition
\* values pb over the atoms
Normalised(w, vol, pb, ia) ==
    /\ RLt(Zero, SeqSum(pb))
    /\ w = RDiv(RMul(vol, pb[ia]), SeqSum(pb))
    /\ (\A k \in 1..Len(pb) : k # ia => pb[k] = Zero) /\ pb[ia] # Zero => w = vol
    /\ RLe(Zero, w) /\ RLe(w, vol)
\* the column of partition values that the pairs (i, j), j < i, give at a
\* point when each pair multiplies p_i by 0.5(1-g) and p_j by 0.5(1+g) once
PairOnce(gs, n, a) ==
    LET pr(i, j) == IF j < i THEN RMul(Half, RSub(One, gs[i][j]))
                    ELSE RMul(Half, RAdd(One, gs[j][i]))
        prod[k \in 0..n] ==
            IF k = 0 THEN One
            ELSE IF k = a THEN prod[k - 1]
            ELSE RMul(prod[k - 1], pr(a, k))
    IN  prod[n]
\* the smoothed g of the pair (i, j) at the point c under the kernel bs
PairValue(a, c, i, j) ==
    becke_scheme_call(a.becke_scheme,
        AdjustedG(a.mol, f_radii_adjust(a.radii_adjust, a.atomic_radii), i, j,
                  PairG(a.mol, c, i, j)))
PairsOnce(a, c, pb) ==
    \A k \in 1..Len(pb) :
       pb[k] = PairOnce([i \in 1..Len(pb) |-> [j \in 1..Len(pb) |->
                            IF j < i THEN PairValue(a, c, i, j) ELSE Zero]],
                        Len(pb), k)
PartitionNormalised(a, r) ==
    \A q \in 1..Len(r.weights) :
       /\ Normalised(r.weights[q], r.vol[q], r.pbecke[q], r.atm_idx[q] + 1)
       /\ PairsOnce(a, r.coords[q], r.pbecke[q])

\* C8 as stated, on the general path: at every point the partition values
\* have a sum greater than 0, the weight is quadrature weight x p_a / sum,
\* it is the quadrature weight where only atom a has a non-zero value and
\* lies between 0 and the quadrature weight, and every pair of atoms has
\* multiplied p_i by 0.5(1-g) and p_j by 0.5(1+g) exactly once
C8_WeightsNormalised ==
    ret # None /\ ~Val(ret).fast /\ Val(ret).raised = "none"
        => PartitionNormalised(Val(args), Val(ret))
\* no two atoms of m are at the same place
AtomsApart(m) == \A i, j \in 1..Len(m.coords) : i # j => m.coords[i] # m.coords[j]
\* the same on molecules whose atoms are at different places
C8_WeightsNormalisedApart ==
    ret # None /\ ~Val(ret).fast /\ Val(ret).raised = "none" /\ AtomsApart(Val(args).mol)
        => PartitionNormalised(Val(args), Val(ret))

\* C9 as stated, on molecules whose atoms are at different places: with the
\* default kernel the fast path is taken exactly when the radii adjustment is
\* one of the two standard forms or absent, and on either path the call
\* completes without error with the partition values of the three-step
\* smoothing
C9_DefaultKernelConsistent ==
    ret # None /\ Val(args).becke_scheme = "original_becke" /\ AtomsApart(Val(args).mol) =>
        /\ Val(ret).fast <=>
              \/ Val(args).radii_adjust \in {"treutler_atomic_radii_adjust",
                                              "becke_atomic_radii_adjust", "None"}
              \/ Val(args).atomic_radii = "None"
        /\ Val(ret).raised = "none"
        /\ \A q \in 1..Len(Val(ret).pbecke) :
              Val(ret).pbecke[q] =
                 FastColumn(Val(args).mol, Val(ret).coords[q],
                            f_radii_adjust(Val(args).radii_adjust, Val(args).atomic_radii))

\* C11 as stated: a pruning policy returns one angular count per radial
\* point, none of them above n_ang
C11_PruneWithinMax ==
    ret # None =>
        /\ Len(Val(ret)) = Len(Val(args).rads)
        /\ \A k \in 1..Len(Val(ret)) : Val(ret)[k] <= Val(args).n_ang
\* the first half of C11: one angular count per radial point
C11_OnePerShell == ret # None => Len(Val(ret)) = Len(Val(args).rads)

\* every box id of r lies in -1..boxes on its axis
BoxIdsValid(r) ==
    \A k \in 1..Len(r.box_ids) : \A x \in 1..3 :
       r.box_ids[k][x] \in (-1)..(r.boxes[x])
\* C12 as stated: the number of boxes per axis is at least 1, the edge
\* length is a finite quotient, and every point gets a box id between the
\* two boundary boxes without an error
C12_BoxesAtLeastOne ==
    ret # None =>
        /\ Val(ret).raised = "none"
        /\ \A x \in 1..3 : Val(ret).boxes[x] >= 1 /\ IsFin(Val(ret).edge[x])
        /\ BoxIdsValid(Val(ret))
\* the second half of C12: no error, and every box id is clamped into
\* -1..boxes
C12_PointsClamped ==
    ret # None => Val(ret).raised = "none" /\ BoxIdsValid(Val(ret))

\* the sum of the angular counts angs
RECURSIVE CountSum(_, _)
CountSum(angs, n) == IF n = 0 THEN 0 ELSE CountSum(angs, n - 1) + angs[n]
\* the number of points equals the sum of the shells' angular counts and the
\* number of weights, and weight q belongs to point q
CountsAgree(angs, r) ==
    /\ Len(r.points) = CountSum(angs, Len(angs))
    /\ Len(r.vols) = Len(r.points)
    /\ \A q \in 1..Len(r.points) : r.vols[q] = r.points[q]
\* every shell contributes each of its angular points
AllPoints(angs, r) ==
    {r.points[q] : q \in 1..Len(r.points)} =
        {<<i, angs[i], j>> : i \in 1..Len(angs), j \in 1..14} \cap
        {<<i, n, j>> \in (1..Len(angs)) \X PointAngs \X (1..14) : j <= n}
\* the chunk of 12 that shell i falls in among the shells of its angular count
ChunkOf(angs, i) == Cardinality({k \in 1..(i - 1) : angs[k] = angs[i]}) \div 12
\* a < b in the lexicographic order of integer tuples of one length
RECURSIVE TupleLess(_, _, _)
TupleLess(a, b, k) ==
    IF k > Len(a) THEN FALSE
    ELSE a[k] < b[k] \/ (a[k] = b[k] /\ TupleLess(a, b, k + 1))
\* sort key by angular count, then shell
ShellKey(angs, p) == <<p[2], p[1]>>
\* sort key by angular count, then chunk, then angular point, then shell
ChunkKey(angs, p) == <<p[2], ChunkOf(angs, p[1]), p[3], p[1]>>

\* C13 as stated: points are grouped by ascending angular count and within
\* a group appear by ascending shell index; their number is the sum of the
\* shells' angular counts and the number of weights
C13_ShellAscending ==
    ret # None =>
        /\ \A q \in 1..(Len(Val(ret).points) - 1) :
              ~TupleLess(ShellKey(Val(args).angs, Val(ret).points[q + 1]),
                         ShellKey(Val(args).angs, Val(ret).points[q]), 1)
        /\ CountsAgree(Val(args).angs, Val(ret))
\* C13 as amended: points are grouped by ascending angular count; within a
\* group the shells are taken in chunks of 12 by ascending shell index, and
\* within a chunk the points run over the angular points in turn, each over
\* the chunk's shells by ascending index; every shell contributes each of
\* its angular points once, so the number of points is the sum of the
\* shells' angular counts, and it is the number of weights
C13_ChunkOrder ==
    ret # None =>
        /\ \A q \in 1..(Len(Val(ret).points) - 1) :
              TupleLess(ChunkKey(Val(args).angs, Val(ret).points[q]),
                        ChunkKey(Val(args).angs, Val(ret).points[q + 1]), 1)
        /\ AllPoints(Val(args).angs, Val(ret))
        /\ CountsAgree(Val(args).angs, Val(ret))
\* thirteen shells of six angular points each have been laid out after a
\* shell of one point
C13_Witness ==
    /\ ret # None
    /\ Cardinality({k \in 1..Len(Val(args).angs) : Val(args).angs[k] = 6}) > 12
    /\ \E k \in 1..Len(Val(args).angs) : Val(args).angs[k] = 1
    /\ Len(Val(ret).points) = 6 * 13 + (Len(Val(args).angs) - 13)

====
